---- MODULE Spec2Model ----
(***************************************************************************)
(* State-machine model of StagehandActHandler (src/lib/handlers/           *)
(* actHandler.ts): the recursive act() orchestrator, the cache replay of   *)
(* _runCachedActionIfAvailable, the fingerprint validator, and the         *)
(* LLMProvider cache purge (src/lib/llm/LLMProvider.ts).                   *)
(*                                                                         *)
(* Every recursive call of act() is a tail call (`return this.act(...)`),  *)
(* so the chain of calls is modelled as one frame whose parameters are     *)
(* rewritten; pc is the position inside the current frame.                 *)
(***************************************************************************)
EXTENDS Integers, Sequences, FiniteSets, TLC

\* ------------------------------------------------------------------ bounds
MaxChunks == 2      \* the document has 1..MaxChunks chunks
MaxSteps == 2       \* successfully executed commands per top-level call; a
                    \* step recurses for a next one only while one is left

\* ------------------------------------------------------- program constants
RetryCap == 2       \* `if (retries < 2)`
DefaultRetries == 0 \* `retries = 0` (parameter default)

\* ---------------------------------------------------------------- universes
Selectors == {"x1", "x2"}
RequestIds == {"r1", "r2"}
Goal == "g1"                               \* the goal text of the request
PageUrl == "u0"                            \* page.url(); navigation is not modelled
VarMaps == {[v |-> "A"], [v |-> "B"]}      \* variable maps of the request
VisionModes == {"on", "off", "fallback"}   \* useVision: true | false | "fallback"

\* selectorMap of the serialized document: element id -> candidate xpaths;
\* e2 is an element for which the document lists no candidate
selectorMap == [e1 |-> <<"x1", "x2">>, e2 |-> <<>>]

\* commands the decision oracle may choose (method, raw arguments)
PressCommand == [method |-> "press", args |-> <<"Enter">>]
Commands ==
  { [method |-> "fill", args |-> <<"<|v|>">>],
    [method |-> "hover2", args |-> <<>>],
    [method |-> "click", args |-> <<>>],
    [method |-> "scrollIntoView", args |-> <<>>],
    PressCommand,
    [method |-> "hover", args |-> <<>>] }

\* the commands the oracle draws from in one setting
Repertoires ==
  { {c \in Commands : c.method \in ms} :
      ms \in {{"fill", "hover2"}, {"click"}, {"scrollIntoView"}, {"press"},
               {"hover"}} }

\* callables of the Playwright locator that the model's commands may name
LocatorMethods == {"click", "fill", "hover", "press", "type"}

\* the answers of the oracle: a command on an element with candidates, or a
\* command on the element without candidates
Decisions ==
  [element : {"e1"}, cmd : Commands, completed : BOOLEAN]
  \cup {[element |-> "e2", cmd |-> PressCommand, completed |-> FALSE]}
NoDecision == [element |-> "none", cmd |-> [method |-> "none", args |-> <<>>],
               completed |-> FALSE]

\* ------------------------------------------------------------ live document
\* An element: `type` is an allow-listed attribute of the element, `cls` an
\* attribute of the element outside the allow-list, `inner` an attribute outside
\* the allow-list on a descendant, `text` the text content; `stale` tells that
\* the element can be waited for but that evaluating a function on it rejects.
mAbsent == [attached |-> FALSE, type |-> "", cls |-> "", inner |-> "",
            text |-> <<>>, stale |-> FALSE]
mSubmit == [attached |-> TRUE, type |-> "submit", cls |-> "c1", inner |-> "k1",
            text |-> <<"S", " ", "m">>, stale |-> FALSE]
mRestyled == [attached |-> TRUE, type |-> "submit", cls |-> "c2", inner |-> "k1",
              text |-> <<"S", " ", " ", "m">>, stale |-> FALSE]
mSend == [attached |-> TRUE, type |-> "submit", cls |-> "c1", inner |-> "k1",
          text |-> <<"N">>, stale |-> FALSE]
mStale == [attached |-> TRUE, type |-> "submit", cls |-> "c1", inner |-> "k1",
           text |-> <<"S", " ", "m">>, stale |-> TRUE]

\* markups an element may have
Markups ==
  [attached : {TRUE}, type : {"submit", "button"}, cls : {"c1", "c2"},
   inner : {"k1", "k2"},
   text : {<<"S", " ", "m">>, <<"S", " ", " ", "m">>, <<"N">>},
   stale : {FALSE}]

Pages ==
  { [x1 |-> mSubmit, x2 |-> mSubmit],
    [x1 |-> mAbsent, x2 |-> mSubmit],
    [x1 |-> mAbsent, x2 |-> mRestyled],
    [x1 |-> mAbsent, x2 |-> mSend],
    [x1 |-> mAbsent, x2 |-> mStale],
    [x1 |-> mAbsent, x2 |-> mAbsent] }

\* ------------------------------------------------------------- pure helpers
Range(s) == {s[i] : i \in 1..Len(s)}

RECURSIVE Reverse(_)
Reverse(s) == IF s = <<>> THEN <<>> ELSE Append(Reverse(Tail(s)), Head(s))

RECURSIVE TrimLeft(_)
TrimLeft(s) == IF s # <<>> /\ Head(s) = " " THEN TrimLeft(Tail(s)) ELSE s

Trim(s) == Reverse(TrimLeft(Reverse(TrimLeft(s))))

\* .replace(/\s+/g, " ")
RECURSIVE CollapseWhitespace(_)
CollapseWhitespace(s) ==
  IF Len(s) < 2 THEN s
  ELSE IF s[1] = " " /\ s[2] = " " THEN CollapseWhitespace(Tail(s))
  ELSE <<s[1]>> \o CollapseWhitespace(Tail(s))

\* .trim().replace(/\s+/g, " ")
Normalize(s) == CollapseWhitespace(Trim(s))

\* _getComponentString: outerHTML of a clone from whose own attributes
\* (`clone.attributes`) those outside the allow-list are removed, normalized.
\* The descendants of the clone are serialized as they are.
GetComponentString(m) ==
  Normalize(<<"<", m.type, ">", "<i class=", m.inner, ">">> \o m.text
            \o <<"</i>", "</>">>)

\* `locator.evaluate(...)` of _getComponentString rejects
SerializationRaises(m) == m.stale

\* fillInVariables (lib/inference): substitute <|name|> placeholders
FillInVariables(arg, vars) ==
  IF arg = "<|v|>" /\ "v" \in DOMAIN vars THEN vars.v ELSE arg

SubstituteArgs(args, vars) == [i \in 1..Len(args) |-> FillInVariables(args[i], vars)]

\* --------------------------------------------------------------- variables
VARIABLES
  \* handler configuration (constructor)
  enableCaching, enableRecording, llmEnableCaching,
  \* environment: the live document, its chunk count, the model's capability,
  \* whether the recorder's appends reject, and the commands the decision
  \* oracle draws from
  page, nChunks, hasVision, recorderFails, oracleCommands,
  \* the caller: the arguments of its request, and whether it will repeat it
  request, repeat,
  \* parameters and position of the current act() frame
  pc, action, steps, chunksSeen, useVision, verifierUseVision, retries,
  requestId, variables, previousSelectors, skipActionCacheForThisStep,
  response,
  \* the parameters the current frame was entered with
  started,
  \* stores
  actionCache, llmCache, pending, recorder,
  \* outcome of the top-level call
  result,
  \* history of the current top-level call
  usedIds, scanCalls, stepRetries, visionFallbacks, executed, sinceInvalid,
  purgesIssued, replayed, drifted, event

cfgVars == <<enableCaching, enableRecording, llmEnableCaching, request, repeat>>
envRest == <<nChunks, hasVision, recorderFails, oracleCommands>>
envVars == <<page, envRest>>
reqVars == <<action, steps, chunksSeen, useVision, verifierUseVision, retries,
             requestId, variables, previousSelectors,
             skipActionCacheForThisStep, response, started>>
storeVars == <<actionCache, llmCache, pending, recorder>>
histVars == <<usedIds, scanCalls, stepRetries, visionFallbacks, executed,
              sinceInvalid, purgesIssued, replayed, drifted>>
vars == <<cfgVars, envVars, pc, reqVars, storeVars, result, histVars, event>>

NoResult == [status |-> "none", success |-> FALSE, message |-> "",
             narrative |-> <<>>, action |-> ""]
\* the outcome of one run of the command executor: the operations it performed,
\* the failure it raised, whether a failure was logged and swallowed, whether a
\* tab the command opened is still open, and whether the page went to its URL
NoExec == [ops |-> <<>>, raised |-> "none", swallowed |-> FALSE,
           tabLeftOpen |-> FALSE, navigated |-> FALSE]

\* what the last step did: its name, the commands it issued to the page,
\* whether it invoked the decision oracle, and the site that raised, if any.
\* `exec` is the outcome of the executor when the step ran it, `shot` tells
\* whether the decision oracle was given a screenshot, `verifier` names the
\* evidence the verification oracle was given ("none" when it was not invoked),
\* and `probed` lists the candidate selectors the resolver waited for
NoEv == [name |-> "none", cmds |-> <<>>, oracle |-> FALSE, site |-> "none",
         exec |-> NoExec, shot |-> FALSE, verifier |-> "none",
         probed |-> <<>>]
Ev(name) == [NoEv EXCEPT !.name = name]
EvCmd(name, cmd) == [NoEv EXCEPT !.name = name, !.cmds = <<cmd>>]
EvOracle(name) == [NoEv EXCEPT !.name = name, !.oracle = TRUE]
EvRaised(ev, site) == [ev EXCEPT !.site = site]
EvExec(ev, outcome) == [ev EXCEPT !.exec = outcome]
EvShot(ev, given) == [ev EXCEPT !.shot = given]
EvVerifier(ev, evidence) == [ev EXCEPT !.verifier = evidence]
EvProbed(ev, probed) == [ev EXCEPT !.probed = probed]
NoRecord == [action |-> "none", url |-> "none", previousSelectors |-> <<>>,
             playwrightCommand |-> [method |-> "none", args |-> <<>>],
             componentString |-> <<>>, requestId |-> "none", xpaths |-> <<>>,
             newStepString |-> "", completed |-> FALSE, foundXpath |-> "none"]

\* ------------------------------------------------- cache store (ActionCache)
\* Key derivation: page URL + goal text + chain of previous selectors.
CacheKey(url, act, prev) == <<url, act, prev>>
KeyOf(rec) == CacheKey(rec.url, rec.action, rec.previousSelectors)

\* getActionStep
GetActionStep(cache, key) ==
  IF \E r \in cache : KeyOf(r) = key
    THEN CHOOSE r \in cache : KeyOf(r) = key
    ELSE NoRecord

\* removeActionStep
RemoveActionStep(cache, key) == {r \in cache : KeyOf(r) # key}

\* addActionStep
AddActionStep(cache, rec) == RemoveActionStep(cache, KeyOf(rec)) \cup {rec}

\* deleteCacheForRequestId
DeleteCacheForRequestId(cache, rid) == {r \in cache : r.requestId # rid}

PutOp(rec) == [op |-> "put", rec |-> rec, requestId |-> rec.requestId]
PurgeOp(rid) == [op |-> "purge", rec |-> NoRecord, requestId |-> rid]

\* cleanRequestCache (LLMProvider): a no-op unless the provider caches
CleanRequestCache(cache, rid) ==
  IF ~llmEnableCaching THEN cache ELSE cache \ {rid}

\* ------------------------------------------------------ fingerprint validator
\* getElement: the locator when the xpath is attached, else null
GetElement(pg, xpath) == pg[xpath].attached

\* _checkIfCachedStepIsValid_oneXpath
CheckIfCachedStepIsValid_oneXpath(pg, xpath, savedComponentString) ==
  IF ~GetElement(pg, xpath) THEN FALSE
  ELSE IF SerializationRaises(pg[xpath]) THEN FALSE   \* `catch (e)`
  ELSE LET currentComponent == GetComponentString(pg[xpath])
       IN IF currentComponent = <<>> \/ savedComponentString = <<>> THEN FALSE
          ELSE Normalize(currentComponent) = Normalize(savedComponentString)

RECURSIVE FirstValid(_, _, _)
FirstValid(pg, xpaths, saved) ==
  IF xpaths = <<>> THEN "none"
  ELSE IF CheckIfCachedStepIsValid_oneXpath(pg, Head(xpaths), saved)
    THEN Head(xpaths)
    ELSE FirstValid(pg, Tail(xpaths), saved)

\* _getValidCachedStepXpath: the stored xpaths are tried in reverse order
GetValidCachedStepXpath_forward(pg, cachedStep) ==
  FirstValid(pg, cachedStep.xpaths, cachedStep.componentString)
GetValidCachedStepXpath_unchecked(pg, cachedStep) ==
  IF cachedStep.xpaths = <<>> THEN "none" ELSE Head(Reverse(cachedStep.xpaths))
GetValidCachedStepXpath(pg, cachedStep) ==
  FirstValid(pg, Reverse(cachedStep.xpaths), cachedStep.componentString)

\* ---------------------------------------------------------- element resolver
\* act(): `for (const xp of xpaths)` with waitFor({state: "attached"})
RECURSIVE FirstAttached_last(_, _)
FirstAttached_last(pg, xpaths) ==
  IF xpaths = <<>> THEN "none"
  ELSE IF FirstAttached_last(pg, Tail(xpaths)) # "none"
    THEN FirstAttached_last(pg, Tail(xpaths))
  ELSE IF pg[Head(xpaths)].attached THEN Head(xpaths)
  ELSE "none"
RECURSIVE FirstAttached(_, _)
FirstAttached(pg, xpaths) ==
  IF xpaths = <<>> THEN "none"
  ELSE IF pg[Head(xpaths)].attached THEN Head(xpaths)
  ELSE FirstAttached(pg, Tail(xpaths))

\* the candidates the loop waits for: it leaves with `break` at the first one
\* that is attached
RECURSIVE ProbedXpaths(_, _)
ProbedXpaths(pg, xpaths) ==
  IF xpaths = <<>> THEN <<>>
  ELSE IF pg[Head(xpaths)].attached THEN <<Head(xpaths)>>
  ELSE <<Head(xpaths)>> \o ProbedXpaths(pg, Tail(xpaths))

\* --------------------------------------------------------- command executor
\* What the page does while one command runs: whether the operation raises, and
\* when a new tab opens: not at all, before the executor listens for it
\* ("early": `context.once("page")` is registered only after the click has been
\* awaited), or while the executor listens and its timer has not expired
\* ("late").
TabTimes == {"none", "early", "late"}
ExecEnvs == [fails : BOOLEAN, tab : TabTimes]

\* the last statement: `await this.stagehandPage._waitForSettledDom(...)`
SettleAtEnd(ops) == [NoExec EXCEPT !.ops = Append(ops, "settle")]

\* `throw new PlaywrightCommandException(e.message)`
CommandException(ops) == [NoExec EXCEPT !.ops = ops, !.raised = "command"]

\* `throw new PlaywrightCommandMethodNotSupportedException(...)`
MethodNotSupported_issued(method) ==
  [NoExec EXCEPT !.ops = <<method>>, !.raised = "unsupported"]
MethodNotSupported(method) == [NoExec EXCEPT !.raised = "unsupported"]

\* scrollIntoView: `locator.evaluate(...).catch(log)`: a failure is swallowed
ScrollFailure_raised(failed) ==
  IF failed THEN CommandException(<<"scrollIntoView">>)
  ELSE SettleAtEnd(<<"scrollIntoView">>)
ScrollFailure(failed) ==
  [SettleAtEnd(<<"scrollIntoView">>) EXCEPT !.swallowed = failed]

\* the race of `once("page")` against the 1.5 s timer: the listener sees a tab
\* only if it opens while the listener is registered
NewOpenedTab(tab) == tab = "late"

\* after a click: the new-tab race, the handling of a new tab, and the race of
\* the network-idle wait against the 5 s timer
AfterClick(tab) ==
  LET raced == <<"click", "raceNewTab">>
      ops == IF NewOpenedTab(tab)
               THEN raced \o <<"closeTab", "goto", "waitLoad", "settle">>
               ELSE raced
  IN [SettleAtEnd(Append(ops, "raceNetworkIdle")) EXCEPT
        !.tabLeftOpen = (tab # "none" /\ ~NewOpenedTab(tab)),
        !.navigated = NewOpenedTab(tab)]

\* _performPlaywrightMethod(method, args, xpath)
PerformPlaywrightMethod(method, env) ==
  IF method = "scrollIntoView" THEN ScrollFailure(env.fails)
  ELSE IF method \in {"fill", "type"}
    THEN IF env.fails THEN CommandException(<<"fill">>)
         ELSE SettleAtEnd(<<"fill", "click", "type">>)
  ELSE IF method = "press"
    THEN IF env.fails THEN CommandException(<<"press">>)
         ELSE SettleAtEnd(<<"press">>)
  ELSE IF method \in LocatorMethods
    THEN IF env.fails THEN CommandException(<<method>>)
         ELSE IF method = "click" THEN AfterClick(env.tab)
         ELSE SettleAtEnd(<<method>>)
  ELSE MethodNotSupported(method)

\* the document after a command ran: a click relabels the element it hit, the
\* other commands leave the markup of the element as it was
Clicked(m) == [m EXCEPT !.text = <<"N">>]
PageAfter(pg, method, xpath) ==
  IF method = "click" THEN [pg EXCEPT ![xpath] = Clicked(@)] ELSE pg

\* _verifyActionCompletion: `if (!completed) return false`; then the evidence
\* is a full-page screenshot `if (verifierUseVision)`, else the serialized
\* document
VerifierEvidence_always(completed, vv) == IF vv THEN "screenshot" ELSE "dom"
VerifierEvidence(completed, vv) ==
  IF ~completed THEN "none" ELSE IF vv THEN "screenshot" ELSE "dom"

\* the outcomes the executor can have for a method
ExecOutcomes(method) == {PerformPlaywrightMethod(method, env) : env \in ExecEnvs}

\* --------------------------------------------------------------- chunk scan
\* window.processDom(chunksSeen): the next chunk not yet seen
UnseenChunks(seen, n) == (0..(n - 1)) \ Range(seen)
ProcessDomChunk(seen, n) ==
  CHOOSE c \in UnseenChunks(seen, n) : \A d \in UnseenChunks(seen, n) : c <= d

\* `chunksSeen.length + 1 < chunks.length`
MoreChunks(seen, n) == Len(seen) + 1 < n

\* `chunksSeen.push(chunk)`
PushChunk_forgotten(seen, c) == seen
PushChunk(seen, c) == Append(seen, c)

\* the chunk-advance recursion does not pass `retries`: the default 0 applies
AdvanceRetries_counted(r) == r + 1
AdvanceRetries(r) == DefaultRetries

\* the vision-fallback recursion passes `useVision: true`
FallbackVision_kept == "fallback"
FallbackVision == "on"

\* `!llmClient.hasVision && (useVision !== false || verifierUseVision)`
Downgrade(hv, uv, vv) == ~hv /\ (uv # "off" \/ vv)
EffUseVision == IF Downgrade(hasVision, useVision, verifierUseVision)
                  THEN "off" ELSE useVision
EffVerifierUseVision == IF Downgrade(hasVision, useVision, verifierUseVision)
                          THEN FALSE ELSE verifierUseVision

\* narrative fragments
StepFragment == "## Step"
ScrolledFragment == "## Step: Scrolled to another section"

\* ---------------------------------------------------- control-flow helpers
\* `return this.act({...})`: the next frame of the call chain
FrameStart(st, cs, uv, vv, rt, prev, skip) ==
  [steps |-> st, chunksSeen |-> cs, useVision |-> uv, verifierUseVision |-> vv,
   retries |-> rt, previousSelectors |-> prev,
   skipActionCacheForThisStep |-> skip]

Recurse(st, cs, uv, vv, rt, prev, skip) ==
  /\ pc' = "init"
  /\ started' = FrameStart(st, cs, uv, vv, rt, prev, skip)
  /\ steps' = st
  /\ chunksSeen' = cs
  /\ useVision' = uv
  /\ verifierUseVision' = vv
  /\ retries' = rt
  /\ previousSelectors' = prev
  /\ skipActionCacheForThisStep' = skip
  /\ response' = NoDecision
  /\ UNCHANGED <<action, requestId, variables>>

\* `return {success, message, action}`
ReturnResult(success, message, narrative) ==
  /\ pc' = "done"
  /\ result' = [status |-> "returned", success |-> success, message |-> message,
                narrative |-> narrative, action |-> action]
  /\ UNCHANGED reqVars

\* cleanRequestCache + deleteCacheForRequestId (the latter is not awaited)
PurgeSession ==
  /\ llmCache' = CleanRequestCache(llmCache, requestId)
  /\ pending' = pending \cup {PurgeOp(requestId)}
  /\ purgesIssued' = purgesIssued \cup {requestId}

PurgeIfCaching ==
  IF enableCaching THEN PurgeSession
  ELSE UNCHANGED <<llmCache, pending, purgesIssued>>

\* act(): outer `catch (error)`
OuterCatch ==
  /\ PurgeIfCaching
  /\ ReturnResult(FALSE, "Error performing action - C", <<>>)
  /\ UNCHANGED <<actionCache, stepRetries>>

\* `retries: retries + 1`
RetryCount_same(r) == r
RetryCount(r) == r + 1

\* act(): inner `catch (error)`: bounded retry, then terminal failure
InnerCatch ==
  IF retries < RetryCap
    THEN /\ Recurse(steps, chunksSeen, useVision, verifierUseVision,
                    RetryCount(retries), previousSelectors,
                    skipActionCacheForThisStep)
         /\ stepRetries' = IF stepRetries <= RetryCap THEN stepRetries + 1
                                                       ELSE stepRetries
         /\ UNCHANGED <<actionCache, llmCache, pending, purgesIssued, result>>
    ELSE /\ PurgeIfCaching
         /\ ReturnResult(FALSE, "error performing action - a", <<>>)
         /\ UNCHANGED <<actionCache, stepRetries>>

\* _runCachedActionIfAvailable(): `catch (exception)`: the step is removed and
\* null is returned, so act() recurses with skipActionCacheForThisStep: true
CachedCatch ==
  /\ actionCache' = RemoveActionStep(actionCache,
                      CacheKey(PageUrl, action, previousSelectors))
  /\ Recurse(steps, chunksSeen, useVision, verifierUseVision, retries,
             previousSelectors, TRUE)
  /\ UNCHANGED <<llmCache, pending, purgesIssued, result, stepRetries>>

\* an exception that no handler catches leaves act() as a rejection
Uncaught ==
  /\ pc' = "done"
  /\ result' = [NoResult EXCEPT !.status = "raised"]
  /\ UNCHANGED <<reqVars, actionCache, llmCache, pending, purgesIssued,
                 stepRetries>>

\* which handler encloses each failure site
CaughtBy_settleRetried(site) ==
  CASE site \in {"lookup", "dom", "oracle"} -> "outer"
    [] site \in {"settle", "resolve", "fingerprint", "command"} -> "inner"
    [] site \in {"cachedCommand", "cachedDom", "cachedVerify"} -> "cached"
    [] OTHER -> "none"
CaughtBy_lookupEscapes(site) ==
  CASE site \in {"settle", "dom", "oracle"} -> "outer"
    [] site \in {"resolve", "fingerprint", "command"} -> "inner"
    [] site \in {"cachedCommand", "cachedDom", "cachedVerify"} -> "cached"
    [] OTHER -> "none"
CaughtBy(site) ==
  CASE site \in {"settle", "lookup", "dom", "oracle"} -> "outer"
    [] site \in {"resolve", "fingerprint", "command"} -> "inner"
    [] site \in {"cachedCommand", "cachedDom", "cachedVerify"} -> "cached"
    [] OTHER -> "none"

Throw(site) ==
  CASE CaughtBy(site) = "outer" -> OuterCatch
    [] CaughtBy(site) = "inner" -> InnerCatch
    [] CaughtBy(site) = "cached" -> CachedCatch
    [] OTHER -> Uncaught

\* ---------------------------------------------------------------- initial
\* The settings explored: a baseline, and one group of related settings varied
\* at a time.
Baseline ==
  [enableCaching |-> TRUE, enableRecording |-> TRUE, llmEnableCaching |-> TRUE,
   hasVision |-> TRUE, useVision |-> "fallback", verifierUseVision |-> FALSE,
   variables |-> [v |-> "A"], nChunks |-> 2,
   page |-> [x1 |-> mAbsent, x2 |-> mSubmit], repeat |-> FALSE,
   recorderFails |-> FALSE,
   oracleCommands |-> {c \in Commands : c.method \in {"fill", "hover2"}}]

Scenarios ==
  {[Baseline EXCEPT !.hasVision = hv, !.useVision = uv, !.verifierUseVision = vv] :
      hv \in BOOLEAN, uv \in VisionModes, vv \in BOOLEAN}
  \cup {[Baseline EXCEPT !.enableCaching = c, !.llmEnableCaching = l] :
      c \in BOOLEAN, l \in BOOLEAN}
  \cup {[Baseline EXCEPT !.nChunks = n] : n \in 1..MaxChunks}
  \cup {[Baseline EXCEPT !.page = pg] : pg \in Pages}
  \cup {[Baseline EXCEPT !.variables = vm] : vm \in VarMaps}
  \cup {[Baseline EXCEPT !.enableRecording = r] : r \in BOOLEAN}
  \cup {[Baseline EXCEPT !.recorderFails = f] : f \in BOOLEAN}
  \cup {[Baseline EXCEPT !.repeat = r] : r \in BOOLEAN}
  \cup {[Baseline EXCEPT !.oracleCommands = cs] : cs \in Repertoires}
  \cup {[Baseline EXCEPT !.repeat = TRUE, !.hasVision = FALSE,
                         !.verifierUseVision = TRUE]}

Init ==
  \E s \in Scenarios :
    /\ enableCaching = s.enableCaching
    /\ enableRecording = s.enableRecording
    /\ llmEnableCaching = s.llmEnableCaching
    /\ page = s.page
    /\ nChunks = s.nChunks
    /\ hasVision = s.hasVision
    /\ recorderFails = s.recorderFails
    /\ oracleCommands = s.oracleCommands
    /\ request = [useVision |-> s.useVision,
                  verifierUseVision |-> s.verifierUseVision,
                  variables |-> s.variables]
    /\ repeat = s.repeat
    /\ pc = "idle"
    /\ action = Goal
    /\ steps = <<>>
    /\ chunksSeen = <<>>
    /\ useVision = s.useVision
    /\ verifierUseVision = s.verifierUseVision
    /\ retries = DefaultRetries
    /\ requestId = "none"
    /\ variables = s.variables
    /\ previousSelectors = <<>>
    /\ skipActionCacheForThisStep = FALSE
    /\ response = NoDecision
    /\ started = FrameStart(<<>>, <<>>, s.useVision, s.verifierUseVision,
                            DefaultRetries, <<>>, FALSE)
    /\ actionCache = {}
    /\ llmCache = {}
    /\ pending = {}
    /\ recorder = <<>>
    /\ result = NoResult
    /\ usedIds = {}
    /\ scanCalls = 0
    /\ stepRetries = 0
    /\ visionFallbacks = 0
    /\ executed = 0
    /\ sinceInvalid = -1
    /\ purgesIssued = {}
    /\ replayed = NoRecord
    /\ drifted = FALSE
    /\ event = Ev("Init")

NextRequestId(used) == IF "r1" \notin used THEN "r1" ELSE "r2"

\* ------------------------------------------------------- top-level call
\* A caller invokes act() with steps = "", chunksSeen = [], retries = 0,
\* previousSelectors = [], skipActionCacheForThisStep = false. A repeated
\* request starts once the store work of the first one has settled.
Call ==
  /\ \/ pc = "idle"
     \/ pc = "returned" /\ repeat /\ usedIds # RequestIds /\ pending = {}
  /\ pc' = "init"
  /\ action' = Goal
  /\ steps' = <<>>
  /\ chunksSeen' = <<>>
  /\ useVision' = request.useVision
  /\ verifierUseVision' = request.verifierUseVision
  /\ retries' = DefaultRetries
  /\ requestId' = NextRequestId(usedIds)
  /\ variables' = request.variables
  /\ previousSelectors' = <<>>
  /\ skipActionCacheForThisStep' = FALSE
  /\ response' = NoDecision
  /\ started' = FrameStart(<<>>, <<>>, request.useVision,
                           request.verifierUseVision, DefaultRetries, <<>>, FALSE)
  /\ result' = NoResult
  /\ usedIds' = usedIds \cup {NextRequestId(usedIds)}
  /\ scanCalls' = 0
  /\ stepRetries' = 0
  /\ visionFallbacks' = 0
  /\ executed' = 0
  /\ sinceInvalid' = -1
  /\ purgesIssued' = {}
  /\ replayed' = NoRecord
  /\ event' = Ev("Call")
  /\ UNCHANGED <<cfgVars, envVars, storeVars, drifted>>

\* act()'s promise settles: the caller has the result, the frame is gone
Return ==
  /\ pc = "done"
  /\ pc' = "returned"
  /\ steps' = <<>>
  /\ chunksSeen' = <<>>
  /\ useVision' = request.useVision
  /\ verifierUseVision' = request.verifierUseVision
  /\ retries' = DefaultRetries
  /\ previousSelectors' = <<>>
  /\ skipActionCacheForThisStep' = FALSE
  /\ response' = NoDecision
  /\ started' = FrameStart(<<>>, <<>>, request.useVision,
                           request.verifierUseVision, DefaultRetries, <<>>, FALSE)
  /\ scanCalls' = 0
  /\ stepRetries' = 0
  /\ visionFallbacks' = 0
  /\ executed' = 0
  /\ sinceInvalid' = -1
  /\ replayed' = NoRecord
  /\ event' = Ev("Return")
  /\ UNCHANGED <<cfgVars, envVars, action, requestId, variables, storeVars,
                 result, usedIds, purgesIssued, drifted>>

\* the document drifts between two top-level calls
PageDrift(pg) ==
  /\ pc = "returned"
  /\ repeat
  /\ usedIds # RequestIds
  /\ ~drifted
  /\ pg # page
  /\ page' = pg
  /\ drifted' = TRUE
  /\ event' = Ev("PageDrift")
  /\ UNCHANGED <<cfgVars, envRest, pc, reqVars, storeVars, result,
                 usedIds, scanCalls, stepRetries, visionFallbacks, executed,
                 sinceInvalid, purgesIssued, replayed>>

\* variables that no failure handler touches
quietVars == <<cfgVars, envVars, recorder, usedIds, scanCalls, visionFallbacks,
               executed, sinceInvalid, replayed, drifted>>

\* ----------------------------------------------------------------- Init
\* `await _waitForSettledDom(); await startDomDebug()` raises
ActInitRaises ==
  /\ pc = "init"
  /\ Throw("settle")
  /\ event' = Ev("ActInitRaises")
  /\ UNCHANGED quietVars

\* `if (this.enableCaching && !skipActionCacheForThisStep)`
ActInit ==
  /\ pc = "init"
  /\ pc' = IF enableCaching /\ ~skipActionCacheForThisStep THEN "cache" ELSE "fresh"
  /\ event' = Ev("ActInit")
  /\ UNCHANGED <<cfgVars, envVars, reqVars, storeVars, result, histVars>>

\* ------------------------------------------------------------ CacheCheck
\* _runCachedActionIfAvailable()
cacheObjKey == CacheKey(PageUrl, action, previousSelectors)
cachedStep == GetActionStep(actionCache, cacheObjKey)
validXpath == GetValidCachedStepXpath(page, cachedStep)

\* `cachedStep.playwrightCommand.args.map((arg) => fillInVariables(arg, variables))`
ReplayArgs_raw(rec, vm) == rec.playwrightCommand.args
ReplayArgs(rec, vm) == SubstituteArgs(rec.playwrightCommand.args, vm)

\* `_performPlaywrightMethod(method, args, validXpath)` of the replay
ReplayCmd(ok) ==
  [method |-> cachedStep.playwrightCommand.method,
   args |-> ReplayArgs(cachedStep, variables),
   xpath |-> validXpath, source |-> "cache", ok |-> ok]

\* _recordActionIfEnabled from the replay: `xpaths: [validXpath]`
ReplayEntry ==
  [xpaths |-> <<validXpath>>, method |-> cachedStep.playwrightCommand.method,
   args |-> ReplayArgs(cachedStep, variables), requestId |-> requestId]

\* _recordActionIfEnabled: `if (!this.enableRecording) return;` then
\* `actionRecorder.addActionStep(...)`, which appends unless it rejects
RecordIfEnabled_unguarded(entry) ==
  recorder' = IF ~recorderFails THEN Append(recorder, entry) ELSE recorder
RecordIfEnabled(entry) ==
  recorder' = IF enableRecording /\ ~recorderFails THEN Append(recorder, entry)
                                                    ELSE recorder

\* `await this.actionCache.getActionStep(cacheObj)` raises (before the try)
CacheLookupRaises ==
  /\ pc = "cache"
  /\ Throw("lookup")
  /\ event' = Ev("CacheLookupRaises")
  /\ UNCHANGED quietVars

\* the flag act() passes after a null from the cache check:
\* `skipActionCacheForThisStep: true`
SkipAfterNull_again == FALSE
SkipAfterNull == TRUE

\* `if (!cachedStep) return null`
CacheMiss ==
  /\ pc = "cache"
  /\ cachedStep = NoRecord
  /\ Recurse(steps, chunksSeen, useVision, verifierUseVision, retries,
             previousSelectors, SkipAfterNull)
  /\ sinceInvalid' = -1
  /\ event' = Ev("CacheMiss")
  /\ UNCHANGED <<cfgVars, envVars, storeVars, result, usedIds, drifted, scanCalls,
                 stepRetries, visionFallbacks, executed, purgesIssued, replayed>>

\* `if (!validXpath) { await this.actionCache?.removeActionStep(cacheObj);
\* return null; }`
InvalidStepRemoved_kept(cache, key) == cache
InvalidStepRemoved_session(cache, key) ==
  DeleteCacheForRequestId(cache, GetActionStep(cache, key).requestId)
InvalidStepRemoved(cache, key) == RemoveActionStep(cache, key)

\* a cached step is found and none of its selectors validates
CacheInvalid ==
  /\ pc = "cache"
  /\ cachedStep # NoRecord
  /\ validXpath = "none"
  /\ actionCache' = InvalidStepRemoved(actionCache, cacheObjKey)
  /\ Recurse(steps, chunksSeen, useVision, verifierUseVision, retries,
             previousSelectors, SkipAfterNull)
  /\ sinceInvalid' = 0
  /\ event' = Ev("CacheInvalid")
  /\ UNCHANGED <<cfgVars, envVars, llmCache, pending, recorder, result, usedIds, drifted,
                 scanCalls, stepRetries, visionFallbacks, executed,
                 purgesIssued, replayed>>

\* the verification of a replayed step: `if (cachedStep.completed)` guards the
\* call, which passes `completed: true` and the frame's verifierUseVision
CachedVerifierEvidence ==
  IF cachedStep.completed THEN VerifierEvidence(TRUE, verifierUseVision)
                          ELSE "none"

\* the event of a replay whose command ran
EvReplay(name, outcome) ==
  EvVerifier(EvExec(EvCmd(name, ReplayCmd(TRUE)), outcome),
             CachedVerifierEvidence)

\* the replayed command raises, or processDom / the verification raises after it
CacheReplayRaises(site) ==
  /\ pc = "cache"
  /\ cachedStep # NoRecord
  /\ validXpath # "none"
  /\ site = "cachedVerify" => cachedStep.completed
  /\ site # "cachedCommand" => executed < MaxSteps
  /\ \E outcome \in ExecOutcomes(cachedStep.playwrightCommand.method) :
       /\ (outcome.raised # "none") = (site = "cachedCommand")
       /\ event' =
            EvRaised(
              IF site = "cachedVerify"
                THEN EvReplay("CacheReplayRaises", outcome)
                ELSE EvExec(EvCmd("CacheReplayRaises",
                                  ReplayCmd(site # "cachedCommand")), outcome),
              site)
  /\ Throw(site)
  /\ executed' = IF site # "cachedCommand" THEN executed + 1 ELSE executed
  /\ IF site # "cachedCommand" THEN RecordIfEnabled(ReplayEntry)
                               ELSE UNCHANGED recorder
  /\ page' = IF site # "cachedCommand"
               THEN PageAfter(page, cachedStep.playwrightCommand.method,
                              validXpath)
               ELSE page
  /\ sinceInvalid' = -1
  /\ replayed' = cachedStep
  /\ UNCHANGED <<cfgVars, envRest, usedIds, drifted, scanCalls, visionFallbacks>>

\* replay, `cachedStep.completed`, and the verification returns true
CacheReplayDone ==
  /\ pc = "cache"
  /\ cachedStep # NoRecord
  /\ validXpath # "none"
  /\ cachedStep.completed
  /\ executed < MaxSteps
  /\ \E outcome \in ExecOutcomes(cachedStep.playwrightCommand.method) :
       /\ outcome.raised = "none"
       /\ event' = EvReplay("CacheReplayDone", outcome)
  /\ ReturnResult(TRUE, "action completed successfully using cached step", <<>>)
  /\ executed' = executed + 1
  /\ RecordIfEnabled(ReplayEntry)
  /\ page' = PageAfter(page, cachedStep.playwrightCommand.method, validXpath)
  /\ sinceInvalid' = -1
  /\ replayed' = cachedStep
  /\ UNCHANGED <<cfgVars, envRest, actionCache, llmCache, pending, usedIds,
                 drifted, scanCalls, stepRetries, visionFallbacks, purgesIssued>>

\* replay of a step that is not complete, or whose verification returns false:
\* `previousSelectors: [...previousSelectors, cachedStep.xpaths[0]]`
CacheReplayContinue ==
  /\ pc = "cache"
  /\ cachedStep # NoRecord
  /\ validXpath # "none"
  /\ executed + 1 < MaxSteps
  /\ \E outcome \in ExecOutcomes(cachedStep.playwrightCommand.method) :
       /\ outcome.raised = "none"
       /\ event' = EvReplay("CacheReplayContinue", outcome)
  /\ Recurse(Append(steps, cachedStep.newStepString), chunksSeen, useVision,
             verifierUseVision, retries,
             Append(previousSelectors, cachedStep.xpaths[1]), FALSE)
  /\ executed' = executed + 1
  /\ RecordIfEnabled(ReplayEntry)
  /\ page' = PageAfter(page, cachedStep.playwrightCommand.method, validXpath)
  /\ sinceInvalid' = -1
  /\ replayed' = cachedStep
  /\ stepRetries' = 0
  /\ UNCHANGED <<cfgVars, envRest, actionCache, llmCache, pending, result,
                 usedIds, drifted, scanCalls, visionFallbacks, purgesIssued>>

\* -------------------------------------------------------- FreshInference
chunk == ProcessDomChunk(chunksSeen, nChunks)

\* history: one more invocation of the decision oracle. scanCalls counts the
\* invocations of a call for as long as every answer was null and the vision
\* fallback has not been taken; it is -1 afterwards.
OracleInvoked(null) ==
  /\ scanCalls' = IF null /\ scanCalls >= 0 /\ visionFallbacks = 0
                    THEN scanCalls + 1 ELSE -1
  /\ sinceInvalid' = IF sinceInvalid >= 0 /\ sinceInvalid < 2
                       THEN sinceInvalid + 1 ELSE sinceInvalid

\* the model-response cache keeps the oracle's answer under the request id
LlmCacheAfterAnswer == IF llmEnableCaching THEN llmCache \cup {requestId} ELSE llmCache

\* `if (useVision === true) { if (!llmClient.hasVision) {...} else
\* annotatedScreenshot = ... }`: the screenshot handed to the decision oracle
OracleScreenshot == EffUseVision = "on" /\ hasVision

\* the event of a step that invoked the decision oracle
EvAsked(name) == EvShot(EvOracle(name), OracleScreenshot)

\* processDom, the screenshot, the decision oracle or cleanupDomDebug raises:
\* all of them are outside the inner try
FreshRaises(site) ==
  /\ pc = "fresh"
  /\ site \in {"dom", "oracle"}
  /\ Throw(site)
  /\ IF site = "oracle" THEN OracleInvoked(FALSE)
                        ELSE UNCHANGED <<scanCalls, sinceInvalid>>
  /\ event' = EvRaised(IF site = "oracle" THEN EvAsked("FreshRaises")
                                           ELSE Ev("FreshRaises"), site)
  /\ UNCHANGED <<cfgVars, envVars, recorder, usedIds, drifted, visionFallbacks, executed,
                 replayed>>

\* `if (!response)` and `chunksSeen.length + 1 < chunks.length`
NullAdvance ==
  /\ pc = "fresh"
  /\ UnseenChunks(chunksSeen, nChunks) # {}
  /\ MoreChunks(chunksSeen, nChunks)
  /\ Recurse(Append(steps, ScrolledFragment), PushChunk(chunksSeen, chunk),
             EffUseVision, EffVerifierUseVision, AdvanceRetries(retries),
             previousSelectors, skipActionCacheForThisStep)
  /\ OracleInvoked(TRUE)
  /\ llmCache' = LlmCacheAfterAnswer
  /\ event' = EvAsked("NullAdvance")
  /\ UNCHANGED <<cfgVars, envVars, actionCache, pending, recorder, result,
                 usedIds, drifted, stepRetries, visionFallbacks, executed, purgesIssued,
                 replayed>>

\* `else if (useVision === "fallback")`
NullFallback ==
  /\ pc = "fresh"
  /\ UnseenChunks(chunksSeen, nChunks) # {}
  /\ ~MoreChunks(chunksSeen, nChunks)
  /\ EffUseVision = "fallback"
  /\ Recurse(steps, chunksSeen, FallbackVision, EffVerifierUseVision,
             DefaultRetries, previousSelectors, skipActionCacheForThisStep)
  /\ OracleInvoked(TRUE)
  /\ llmCache' = LlmCacheAfterAnswer
  /\ visionFallbacks' = IF visionFallbacks < 2 THEN visionFallbacks + 1
                                               ELSE visionFallbacks
  /\ event' = EvAsked("NullFallback")
  /\ UNCHANGED <<cfgVars, envVars, actionCache, pending, recorder, result,
                 usedIds, drifted, stepRetries, executed, purgesIssued, replayed>>

\* the terminal branch purges `if (this.enableCaching)`
NotCompletablePurges_never == FALSE
NotCompletablePurges == enableCaching

\* `else { ...; return {success: false, "Action was not able to be completed."} }`
NullTerminal ==
  /\ pc = "fresh"
  /\ UnseenChunks(chunksSeen, nChunks) # {}
  /\ ~MoreChunks(chunksSeen, nChunks)
  /\ EffUseVision # "fallback"
  /\ IF NotCompletablePurges THEN PurgeSession
                             ELSE UNCHANGED <<llmCache, pending, purgesIssued>>
  /\ ReturnResult(FALSE, "Action was not able to be completed.", <<>>)
  /\ OracleInvoked(TRUE)
  /\ event' = EvAsked("NullTerminal")
  /\ UNCHANGED <<cfgVars, envVars, actionCache, recorder, usedIds, drifted, stepRetries,
                 visionFallbacks, executed, replayed>>

\* the oracle answers {element, method, args, completed}
Decide(d) ==
  /\ pc = "fresh"
  /\ d.cmd \in oracleCommands
  /\ UnseenChunks(chunksSeen, nChunks) # {}
  /\ pc' = "execute"
  /\ response' = d
  /\ useVision' = EffUseVision
  /\ verifierUseVision' = EffVerifierUseVision
  /\ OracleInvoked(FALSE)
  /\ llmCache' = LlmCacheAfterAnswer
  /\ event' = EvAsked("Decide")
  /\ UNCHANGED <<cfgVars, envVars, action, steps, chunksSeen, retries, requestId,
                 variables, previousSelectors, skipActionCacheForThisStep, started,
                 actionCache, pending, recorder, result, usedIds, drifted, stepRetries,
                 visionFallbacks, executed, purgesIssued, replayed>>

\* ---------------------------------------------------------------- Execute
xpaths == selectorMap[response.element]
foundXpath == FirstAttached(page, xpaths)
probedXpaths == ProbedXpaths(page, xpaths)

\* `const componentString = await this._getComponentString(locator)`, taken
\* before `_performPlaywrightMethod` is called
componentString_afterCommand ==
  GetComponentString(PageAfter(page, response.cmd.method, foundXpath)[foundXpath])
componentString == GetComponentString(page[foundXpath])

\* `const responseArgs = [...args]`: a copy of the oracle's arguments, taken
\* before fillInVariables writes the substituted values into `args`
responseArgs_aliased == SubstituteArgs(response.cmd.args, variables)
responseArgs == response.cmd.args

\* `const cacheRecord = {...}`; foundXpath is kept as history of the write
cacheRecord ==
  [action |-> action, url |-> PageUrl, previousSelectors |-> previousSelectors,
   playwrightCommand |-> [method |-> response.cmd.method,
                          args |-> responseArgs],
   componentString |-> componentString,
   requestId |-> requestId, xpaths |-> xpaths, newStepString |-> StepFragment,
   completed |-> response.completed, foundXpath |-> foundXpath]

FreshEntry ==
  [xpaths |-> xpaths, method |-> response.cmd.method,
   args |-> responseArgs, requestId |-> requestId]

\* `_performPlaywrightMethod(method, args, foundXpath)` after fillInVariables
FreshCmd(ok) ==
  [method |-> response.cmd.method,
   args |-> SubstituteArgs(response.cmd.args, variables),
   xpath |-> foundXpath, source |-> "fresh", ok |-> ok]

\* `this.actionCache.addActionStep(cacheRecord).catch(...)`: not awaited
IssueCacheWrite_settled == pending' = pending
IssueCacheWrite_unguarded == pending' = pending \cup {PutOp(cacheRecord)}
IssueCacheWrite ==
  pending' = IF enableCaching THEN pending \cup {PutOp(cacheRecord)} ELSE pending

\* "None of the provided XPaths could be located."; also an element id that
\* the selectorMap does not list (`for (const xp of xpaths)` raises inside the
\* same try)
ResolveFails ==
  /\ pc = "execute"
  /\ foundXpath = "none"
  /\ Throw("resolve")
  /\ event' = EvProbed(Ev("ResolveFails"), probedXpaths)
  /\ UNCHANGED quietVars

\* the event of a step of fresh inference whose command ran
EvStep(name, outcome) ==
  EvProbed(EvVerifier(EvExec(EvCmd(name, FreshCmd(TRUE)), outcome),
                      VerifierEvidence(response.completed, verifierUseVision)),
           probedXpaths)

\* `await this._getComponentString(locator)` raises for the resolved element
FingerprintRaises ==
  /\ pc = "execute"
  /\ foundXpath # "none"
  /\ SerializationRaises(page[foundXpath])
  /\ Throw("fingerprint")
  /\ event' = EvProbed(EvRaised(Ev("FingerprintRaises"), "fingerprint"),
                       probedXpaths)
  /\ UNCHANGED quietVars

\* the fingerprint of the resolved element has been taken
Fingerprinted == foundXpath # "none" /\ ~SerializationRaises(page[foundXpath])

\* _performPlaywrightMethod raises PlaywrightCommandException, or
\* PlaywrightCommandMethodNotSupportedException for a method the locator lacks
CommandFails ==
  /\ pc = "execute"
  /\ Fingerprinted
  /\ \E outcome \in ExecOutcomes(response.cmd.method) :
       /\ outcome.raised # "none"
       /\ event' = EvProbed(EvExec(IF outcome.ops # <<>>
                                     THEN EvCmd("CommandFails", FreshCmd(FALSE))
                                     ELSE Ev("CommandFails"), outcome),
                            probedXpaths)
  /\ Throw("command")
  /\ UNCHANGED quietVars

\* the command ran; the step is not complete or the verification says so:
\* `previousSelectors: [...previousSelectors, foundXpath]`, retries not passed
StepContinue ==
  /\ pc = "execute"
  /\ Fingerprinted
  /\ executed + 1 < MaxSteps
  /\ \E outcome \in ExecOutcomes(response.cmd.method) :
       /\ outcome.raised = "none"
       /\ event' = EvStep("StepContinue", outcome)
  /\ Recurse(Append(steps, StepFragment), chunksSeen, useVision,
             verifierUseVision, DefaultRetries,
             Append(previousSelectors, foundXpath), FALSE)
  /\ IssueCacheWrite
  /\ RecordIfEnabled(FreshEntry)
  /\ page' = PageAfter(page, response.cmd.method, foundXpath)
  /\ executed' = executed + 1
  /\ stepRetries' = 0
  /\ UNCHANGED <<cfgVars, envRest, actionCache, llmCache, result, usedIds,
                 drifted, scanCalls, visionFallbacks, sinceInvalid, purgesIssued,
                 replayed>>

\* the command ran, the step claims completion, and the verification returns
\* true or raises (`.catch(() => true)`)
StepDone ==
  /\ pc = "execute"
  /\ Fingerprinted
  /\ response.completed
  /\ executed < MaxSteps
  /\ \E outcome \in ExecOutcomes(response.cmd.method) :
       /\ outcome.raised = "none"
       /\ \E site \in {"none", "verify"} :
            event' = EvRaised(EvStep("StepDone", outcome), site)
  /\ ReturnResult(TRUE, "Action completed successfully",
                  Append(steps, StepFragment))
  /\ IssueCacheWrite
  /\ RecordIfEnabled(FreshEntry)
  /\ page' = PageAfter(page, response.cmd.method, foundXpath)
  /\ executed' = executed + 1
  /\ UNCHANGED <<cfgVars, envRest, actionCache, llmCache, usedIds, drifted,
                 scanCalls, stepRetries, visionFallbacks, sinceInvalid,
                 purgesIssued, replayed>>

\* ------------------------------------------------ asynchronous store work
\* Store work (a pending write or purge) completes at some await. Within one
\* top-level call every lookup uses a key that no pending write of the call
\* carries (PendingKeysNotLookedUp), and a purge is issued only on return, so
\* the moment of completion shows only after act() returned: it is placed there.
StoreWorkRuns == pc = "returned"

PendingKeysNotLookedUp ==
  pc = "cache" =>
    \A op \in pending : op.op = "put" => KeyOf(op.rec) # cacheObjKey

\* a pending addActionStep completes
CacheWriteLands(op) ==
  /\ StoreWorkRuns
  /\ op \in pending
  /\ op.op = "put"
  /\ actionCache' = AddActionStep(actionCache, op.rec)
  /\ pending' = pending \ {op}
  /\ event' = Ev("CacheWriteLands")
  /\ UNCHANGED <<cfgVars, envVars, pc, reqVars, llmCache, recorder, result,
                 histVars>>

\* a pending addActionStep rejects; `.catch` logs and drops it
CacheWriteFails(op) ==
  /\ StoreWorkRuns
  /\ op \in pending
  /\ op.op = "put"
  /\ pending' = pending \ {op}
  /\ event' = Ev("CacheWriteFails")
  /\ UNCHANGED <<cfgVars, envVars, pc, reqVars, actionCache, llmCache, recorder,
                 result, histVars>>

\* a pending deleteCacheForRequestId completes
CachePurgeLands(op) ==
  /\ StoreWorkRuns
  /\ op \in pending
  /\ op.op = "purge"
  /\ actionCache' = DeleteCacheForRequestId(actionCache, op.requestId)
  /\ pending' = pending \ {op}
  /\ event' = Ev("CachePurgeLands")
  /\ UNCHANGED <<cfgVars, envVars, pc, reqVars, llmCache, recorder, result,
                 histVars>>

\* ------------------------------------------------------------------ Next
Next ==
  \/ Call
  \/ Return
  \/ \E pg \in Pages : PageDrift(pg)
  \/ ActInitRaises
  \/ ActInit
  \/ CacheLookupRaises
  \/ CacheMiss
  \/ CacheInvalid
  \/ \E site \in {"cachedCommand", "cachedDom", "cachedVerify"} :
        CacheReplayRaises(site)
  \/ CacheReplayDone
  \/ CacheReplayContinue
  \/ \E site \in {"dom", "oracle"} : FreshRaises(site)
  \/ NullAdvance
  \/ NullFallback
  \/ NullTerminal
  \/ \E d \in Decisions : Decide(d)
  \/ ResolveFails
  \/ FingerprintRaises
  \/ CommandFails
  \/ StepContinue
  \/ StepDone
  \/ \E op \in pending : CacheWriteLands(op)
  \/ \E op \in pending : CacheWriteFails(op)
  \/ \E op \in pending : CachePurgeLands(op)

Spec == Init /\ [][Next]_vars

\* Every `await` of act() returns or raises: while a call is in progress, the
\* handler takes its next step. Nothing is assumed of the caller or of the
\* stores.
ActStep == pc \in {"init", "cache", "fresh", "execute", "done"} /\ Next
LiveSpec == Spec /\ WF_vars(ActStep)

\* ================================================================== claims

\* C1: within one top-level call a step is retried at most RetryCap times before
\* the call fails, also when retries are interleaved with chunk advances, the
\* vision fallback and continuation steps.  stepRetries counts the retries of the
\* step at hand since the last command that succeeded.
C1_RetryBound == stepRetries <= RetryCap

\* C2: a finished top-level call has returned a result and never raised: a
\* failure of the settle wait, the cache lookup, the decision oracle, selector
\* resolution, the command or the verification ends as success = FALSE (or is
\* absorbed), and every result echoes the goal in its action field.
C2_AlwaysReturnsResult ==
  /\ result.status # "raised"
  /\ pc \in {"done", "returned"} =>
       /\ result.status = "returned"
       /\ result.action = Goal
  /\ (pc = "done" /\ event.name \in {"ActInitRaises", "CacheLookupRaises",
                                     "FreshRaises", "NullTerminal",
                                     "ResolveFails", "CommandFails"}) =>
       /\ result.success = FALSE
       /\ result.action = Goal

\* a call that ended because the cache lookup failed
C2_Witness ==
  /\ pc = "done"
  /\ event.name = "CacheLookupRaises"
  /\ result.status = "returned"
  /\ result.success = FALSE

\* C3: a second run of a multi-step goal on an unchanged page is served from
\* the cache: after the replay of a step that is not the last, the key looked up
\* next is the key under which the first run wrote the following step, whichever
\* candidate selector the first run resolved.
C3_ReplayKeyMatchesWrittenKey ==
  LET written == CacheKey(PageUrl, Goal, Append(replayed.previousSelectors,
                                                replayed.foundXpath))
  IN ( /\ event.name = "CacheReplayContinue"
       /\ ~drifted
       /\ ~replayed.completed
       /\ replayed.requestId # requestId
       /\ GetActionStep(actionCache, written) # NoRecord )
     => cacheObjKey = written

\* C4: when the cached step of the current key has a selector whose live
\* fingerprint matches, the replay issues the recorded method with the recorded
\* arguments after variable substitution, on a selector of the record that the
\* validator accepts, exactly once, and the decision oracle is not invoked.
C4_ReplayIssuesRecordedCommand ==
  event.name \in {"CacheReplayRaises", "CacheReplayDone", "CacheReplayContinue"} =>
    /\ Len(event.cmds) = 1
    /\ event.cmds[1].method = replayed.playwrightCommand.method
    /\ event.cmds[1].args =
         SubstituteArgs(replayed.playwrightCommand.args, variables)
    /\ event.cmds[1].xpath \in Range(replayed.xpaths)
    /\ CheckIfCachedStepIsValid_oneXpath(page, event.cmds[1].xpath,
                                         replayed.componentString)
    /\ ~event.oracle

\* a replay of a recorded `fill` whose argument was a variable placeholder
C4_Witness ==
  /\ event.name = "CacheReplayContinue"
  /\ replayed.playwrightCommand.args = <<"<|v|>">>
  /\ event.cmds[1].args = <<variables.v>>
  /\ event.cmds[1].xpath = "x2"

\* C5 (amended): when no selector of the cached step validates, the step is
\* deleted from the store and the same frame is re-entered with the cache
\* bypassed; the decision oracle is invoked at least once before the next cache
\* lookup of the call.
C5_InvalidationThenFresh ==
  /\ event.name = "CacheInvalid" =>
       /\ GetActionStep(actionCache, cacheObjKey) = NoRecord
       /\ skipActionCacheForThisStep
       /\ pc = "init"
  /\ (pc = "cache" /\ sinceInvalid >= 0) => sinceInvalid >= 1

\* a later cache lookup of a call in which a cached step was invalidated
C5_Witness ==
  /\ pc = "cache"
  /\ sinceInvalid >= 1
  /\ drifted

\* C5 as stated: the decision oracle is invoked exactly once between the
\* invalidation and the next cache lookup.
C5_ExactlyOneOracleCall ==
  (pc = "cache" /\ sinceInvalid >= 0) => sinceInvalid = 1

\* C6: starting from an empty seen set on a document of nChunks chunks, with
\* every decision null, the decision oracle is invoked at most nChunks times
\* before the vision fallback or the terminal failure.
C6_ScanBound ==
  /\ scanCalls <= nChunks
  /\ (event.name \in {"NullFallback", "NullTerminal"} /\ scanCalls >= 0) =>
       /\ scanCalls = nChunks
       /\ Len(chunksSeen) + 1 = nChunks

\* the scan of a document of MaxChunks chunks ends in the terminal failure
C6_Witness ==
  /\ event.name = "NullTerminal"
  /\ nChunks > 1
  /\ scanCalls = nChunks

\* C7: the vision fallback is taken at most once per top-level call; afterwards
\* the mode is never `fallback` again, and a further null decision with the
\* chunks exhausted ends in the terminal failure.
C7_FallbackOnce ==
  /\ visionFallbacks <= 1
  /\ (visionFallbacks >= 1 /\ pc \notin {"idle", "returned"}) =>
       useVision # "fallback"
  /\ (event.name = "NullTerminal" /\ visionFallbacks >= 1) =>
       /\ result.success = FALSE
       /\ useVision = "on"

\* the terminal failure of a call that had taken the vision fallback
C7_Witness ==
  /\ event.name = "NullTerminal"
  /\ visionFallbacks = 1
  /\ request.useVision = "fallback"

\* C8: a null decision while unseen chunks remain marks the current chunk seen
\* and re-enters the frame, cache bypass kept, so that the decision oracle is
\* asked again on the next unseen chunk; the step does not increment the retry
\* counter, does not purge or delete any cache entry, and returns no failure.
C8_ChunkAdvance ==
  [][NullAdvance =>
       /\ chunksSeen' = Append(chunksSeen, chunk)
       /\ chunk' \notin Range(chunksSeen) \cup {chunk}
       /\ chunk' \in 0..(nChunks - 1)
       /\ pc' = "init"
       /\ skipActionCacheForThisStep' = skipActionCacheForThisStep
       /\ (enableCaching => skipActionCacheForThisStep')
       /\ retries' <= retries
       /\ actionCache' = actionCache
       /\ pending' = pending
       /\ purgesIssued' = purgesIssued
       /\ llmCache \subseteq llmCache'
       /\ result' = result
       /\ result'.status = "none"]_vars

\* a chunk advance taken after a failed attempt had raised the retry counter
C8_Witness ==
  /\ event.name = "NullAdvance"
  /\ pc = "init"
  /\ Len(chunksSeen) >= 1
  /\ stepRetries >= 1

\* C9: a null decision with no unseen chunk left and the vision mode on or off
\* returns success = FALSE and, when caching is enabled, purges the session from
\* the model-response cache and issues the purge of its action-cache entries.
C9_NotCompletable ==
  event.name = "NullTerminal" =>
    /\ pc = "done"
    /\ result.status = "returned"
    /\ result.success = FALSE
    /\ result.message = "Action was not able to be completed."
    /\ EffUseVision \in {"on", "off"}
    /\ enableCaching =>
         /\ requestId \in purgesIssued
         /\ PurgeOp(requestId) \in pending
         /\ requestId \notin llmCache

\* the terminal failure with both caches enabled
C9_Witness ==
  /\ event.name = "NullTerminal"
  /\ enableCaching
  /\ llmEnableCaching
  /\ PurgeOp(requestId) \in pending
  /\ result.success = FALSE

\* C10: once a call has returned a failure with caching enabled and the store
\* has finished the work the call left behind, the store holds no step owned by
\* the call's session, in whichever order the writes and the purge are carried
\* out.
C10_NoSessionEntriesAfterFailure ==
  ( /\ pc = "returned"
    /\ result.status = "returned"
    /\ ~result.success
    /\ enableCaching
    /\ requestId \in purgesIssued
    /\ pending = {} )
  => ~\E r \in actionCache : r.requestId = requestId

\* C11: a failure raised by the decision oracle is handled by the bounded-retry
\* branch: the call returns a failure for it only when the retry counter has
\* reached RetryCap.
C11_OracleFailureRetried ==
  (event.name = "FreshRaises" /\ event.site = "oracle" /\ pc = "done") =>
    retries >= RetryCap

\* C12: when the verification raises for a step that claims completion, the
\* step counts as completed and the call returns success, for a step of fresh
\* inference and for a step replayed from the cache alike.
C12_VerifierFailureCompletes ==
  event.site \in {"verify", "cachedVerify"} =>
    /\ pc = "done"
    /\ result.status = "returned"
    /\ result.success

\* C13: the fingerprint is deterministic and normalizing. For a live element
\* and any markup: equal markups have equal fingerprints; markups that differ
\* only in the length of whitespace runs have equal fingerprints; markups that
\* differ only in attributes outside the allow-list, on the element or on a
\* descendant, have equal fingerprints; markups that differ in the value of an
\* allow-listed attribute have different fingerprints.
C13_FingerprintNormalizes ==
  \A x \in Selectors : page[x].attached =>
    \A m \in Markups :
      LET a == page[x]
          fa == Normalize(GetComponentString(a))
          fm == Normalize(GetComponentString(m))
          RECURSIVE SameUpToRuns(_, _)
          SameUpToRuns(s, t) ==
            IF s = <<>> \/ t = <<>> THEN s = t
            ELSE IF Head(s) = " " /\ Head(t) = " "
              THEN SameUpToRuns(TrimLeft(s), TrimLeft(t))
            ELSE Head(s) = Head(t) /\ SameUpToRuns(Tail(s), Tail(t))
      IN /\ a = m => fa = fm
         /\ ( /\ a.type = m.type /\ a.cls = m.cls /\ a.inner = m.inner
              /\ SameUpToRuns(a.text, m.text) ) => fa = fm
         /\ (a.type = m.type /\ a.text = m.text) => fa = fm
         /\ a.type # m.type => fa # fm

\* C14: a failing cache write or a failing recorder append never changes the
\* outcome of the surrounding step. The command issued, the narrative, the
\* retry counter and the result of a step are fixed by the frame alone, whether
\* or not the recorder's append rejects; the cache write is still in flight
\* when the step has finished, and its later failure changes neither the result
\* nor the frame.
C14_WritesNeverAffectStep ==
  [][ /\ StepDone =>
           /\ result' = [status |-> "returned", success |-> TRUE,
                         message |-> "Action completed successfully",
                         narrative |-> Append(steps, StepFragment),
                         action |-> action]
           /\ event'.cmds = <<FreshCmd(TRUE)>>
           /\ retries' = retries
           /\ enableCaching => PutOp(cacheRecord) \in pending'
      /\ StepContinue =>
           /\ pc' = "init"
           /\ result' = result
           /\ steps' = Append(steps, StepFragment)
           /\ event'.cmds = <<FreshCmd(TRUE)>>
           /\ retries' = DefaultRetries
           /\ enableCaching => PutOp(cacheRecord) \in pending'
      /\ CacheReplayDone =>
           /\ result'.status = "returned"
           /\ result'.success
           /\ event'.cmds = <<ReplayCmd(TRUE)>>
           /\ retries' = retries
      /\ CacheReplayContinue =>
           /\ pc' = "init"
           /\ result' = result
           /\ steps' = Append(steps, cachedStep.newStepString)
           /\ event'.cmds = <<ReplayCmd(TRUE)>>
           /\ retries' = retries
      /\ (\E op \in pending : CacheWriteFails(op)) =>
           /\ result' = result
           /\ UNCHANGED <<pc, reqVars, recorder, actionCache, stepRetries>>
    ]_vars

\* a step that completed the call although the recorder's append rejected and
\* the cache write is still in flight
C14_Witness ==
  /\ event.name = "StepDone"
  /\ enableRecording
  /\ recorderFails
  /\ recorder = <<>>
  /\ result.success
  /\ \E op \in pending : op.op = "put"

\* C15: whenever the call returns success, the message embeds the narrative of
\* the call, with one step fragment for every command the call executed,
\* whether the completing step came from fresh inference or from the cache.
C15_SuccessEmbedsNarrative ==
  (pc = "done" /\ result.status = "returned" /\ result.success) =>
    Len(SelectSeq(result.narrative, LAMBDA f : f = StepFragment)) = executed

\* C16: a cached command is executed only in a cache check in which a selector
\* of the cached step resolved to an attached element whose normalized live
\* fingerprint equals the stored normalized fingerprint, and it is executed on
\* that selector and on no other; an invalid cached step executes nothing.
C16_ReplayOnlyIfValidated ==
  /\ \A i \in 1..Len(event.cmds) : event.cmds[i].source = "cache" =>
       /\ event.name \in {"CacheReplayRaises", "CacheReplayDone",
                          "CacheReplayContinue"}
       /\ Len(event.cmds) = 1
       /\ event.cmds[i].xpath \in Range(replayed.xpaths)
       /\ page[event.cmds[i].xpath].attached
       /\ CollapseWhitespace(Trim(GetComponentString(page[event.cmds[i].xpath])))
            = CollapseWhitespace(Trim(replayed.componentString))
  /\ event.name \in {"CacheInvalid", "CacheMiss"} => event.cmds = <<>>

\* a replay on an element whose markup changed but whose fingerprint did not
C16_Witness ==
  /\ event.name = "CacheReplayDone"
  /\ drifted
  /\ page.x2 = mRestyled
  /\ event.cmds[1].xpath = "x2"

\* C17: after a validated cache hit whose command fails, or whose completion is
\* verified false, the next iteration is fresh inference with the bypass flag
\* set and with the replayed selector appended to the chain of the lookup.
C17_FailedReplayFallsThrough ==
  ( \/ event.name = "CacheReplayRaises" /\ event.site = "cachedCommand"
    \/ event.name = "CacheReplayContinue" /\ replayed.completed )
  => /\ pc = "init"
     /\ skipActionCacheForThisStep
     /\ previousSelectors =
          Append(replayed.previousSelectors, event.cmds[1].xpath)

\* C18: after a step of fresh inference whose command executed and which is
\* not complete, the next frame starts with the bypass flag cleared, the chain
\* extended by the selector resolved for the step, and the retry counter at its
\* value before the step.
C18_ContinueKeepsRetries ==
  [][StepContinue =>
       /\ pc' = "init"
       /\ skipActionCacheForThisStep' = FALSE
       /\ previousSelectors' = Append(previousSelectors, foundXpath)
       /\ retries' = retries]_vars

\* C19 (amended): a failure of Execute that is retried starts the retried step
\* with the retry counter incremented by exactly 1 and with goal, narrative,
\* seen chunks, variable map, selector chain and bypass flag equal to the values
\* the failed attempt was entered with; the vision mode and the verifier-vision
\* flag are the ones the failed attempt worked with, that is the entered values
\* after the downgrade applied when the model has no vision.
C19_RetryKeepsFrame ==
  [][((ResolveFails \/ CommandFails) /\ retries < RetryCap) =>
       LET down == Downgrade(hasVision, started.useVision,
                             started.verifierUseVision)
       IN /\ pc' = "init"
          /\ retries = started.retries
          /\ retries' = retries + 1
          /\ action' = action
          /\ variables' = variables
          /\ steps' = started.steps
          /\ chunksSeen' = started.chunksSeen
          /\ previousSelectors' = started.previousSelectors
          /\ skipActionCacheForThisStep' = started.skipActionCacheForThisStep
          /\ useVision' = IF down THEN "off" ELSE started.useVision
          /\ verifierUseVision' = IF down THEN FALSE
                                          ELSE started.verifierUseVision]_vars

\* the second retry of a step on a model without vision
C19_Witness ==
  /\ event.name = "CommandFails"
  /\ pc = "init"
  /\ retries = RetryCap
  /\ ~hasVision
  /\ request.useVision = "fallback"
  /\ useVision = "off"

\* C19 as stated: the vision mode and the verifier-vision flag of the retried
\* step equal the values the failed attempt was entered with.
C19_RetryKeepsVisionMode ==
  [][((ResolveFails \/ CommandFails) /\ retries < RetryCap) =>
       /\ retries' = retries + 1
       /\ steps' = started.steps
       /\ chunksSeen' = started.chunksSeen
       /\ previousSelectors' = started.previousSelectors
       /\ skipActionCacheForThisStep' = started.skipActionCacheForThisStep
       /\ useVision' = started.useVision
       /\ verifierUseVision' = started.verifierUseVision]_vars

\* C20: an exception raised before the Execute stage of a frame (the settle
\* wait or the debug-scope start, the cache lookup, the serialization of the
\* document) ends the call at once: the session purge is issued when caching is
\* enabled, the result is a failure, whatever the retry counter, no retry is
\* started and the decision oracle is not invoked afterwards.
C20_EarlyFailureIsTerminal ==
  [][(ActInitRaises \/ CacheLookupRaises \/ FreshRaises("dom")) =>
       /\ pc' = "done"
       /\ result'.status = "returned"
       /\ result'.success = FALSE
       /\ result'.message = "Error performing action - C"
       /\ retries' = retries
       /\ stepRetries' = stepRetries
       /\ scanCalls' = scanCalls
       /\ ~event'.oracle
       /\ IF enableCaching
            THEN /\ PurgeOp(requestId) \in pending'
                 /\ requestId \in purgesIssued'
                 /\ requestId \notin llmCache'
            ELSE UNCHANGED <<pending, purgesIssued, llmCache>>]_vars

\* the settle wait of a retried frame raises: the call ends below the retry cap
C20_Witness ==
  /\ event.name = "ActInitRaises"
  /\ pc = "done"
  /\ retries = 1
  /\ enableCaching
  /\ PurgeOp(requestId) \in pending
  /\ ~result.success

\* C21: every run of the command executor, whatever branch it takes, has the
\* settle wait as its last operation, also when the method is not supported or
\* the command fails.
C21_SettleIsLast ==
  event.exec # NoExec =>
    /\ event.exec.ops # <<>>
    /\ event.exec.ops[Len(event.exec.ops)] = "settle"

\* C22: when a click made a new tab open, at whatever moment before the timer
\* of the new-tab race expired, the executor returns with the tab closed and
\* the page navigated to its URL; when no tab opened it returns without
\* navigating.
C22_NewTabIsFollowed ==
  "raceNewTab" \in Range(event.exec.ops) =>
    /\ ~event.exec.tabLeftOpen
    /\ event.exec.navigated =>
         \E i, j \in 1..Len(event.exec.ops) :
           /\ i < j
           /\ event.exec.ops[i] = "closeTab"
           /\ event.exec.ops[j] = "goto"

\* C23: a method that is none of scrollIntoView, fill, type, press and is not
\* a callable of the locator is rejected as not supported with no operation
\* issued to the element; the step is retried while the retry counter is below
\* RetryCap and ends the call with a failure otherwise.
C23_UnsupportedMethodRetried ==
  LET special == {"scrollIntoView", "fill", "type", "press"}
  IN /\ (pc = "execute" /\ response.cmd.method \notin special \cup LocatorMethods)
          => \A o \in ExecOutcomes(response.cmd.method) :
               o.raised = "unsupported" /\ o.ops = <<>>
     /\ (event.name = "CommandFails" /\ event.exec.raised = "unsupported") =>
          /\ event.cmds = <<>>
          /\ event.exec.ops = <<>>
          /\ \/ pc = "init" /\ retries \in 1..RetryCap /\ result.status = "none"
             \/ /\ pc = "done"
                /\ retries = RetryCap
                /\ result.status = "returned"
                /\ ~result.success

\* an unsupported method that ended the call once the retry counter was used up
C23_Witness ==
  /\ event.name = "CommandFails"
  /\ event.exec.raised = "unsupported"
  /\ pc = "done"
  /\ retries = RetryCap

\* C24: a failure of the scroll of a scrollIntoView command does not abort the
\* step: the executor raises nothing and ends with the settle wait, and the step
\* goes on as after a successful command: it is narrated, its cache write is
\* issued when caching is enabled, the verification runs when the step claims
\* completion, and no retry counter grows.
C24_ScrollFailureNotFatal ==
  [][ /\ CommandFails => response.cmd.method # "scrollIntoView"
      /\ ((StepContinue \/ StepDone) /\ event'.exec.swallowed) =>
           /\ event'.exec.raised = "none"
           /\ event'.exec.ops = <<"scrollIntoView", "settle">>
           /\ event'.cmds = <<FreshCmd(TRUE)>>
           /\ enableCaching => PutOp(cacheRecord) \in pending'
           /\ event'.verifier = "none" <=> ~response.completed
           /\ retries' <= retries
           /\ stepRetries' <= stepRetries
           /\ IF pc' = "done"
                THEN /\ result'.success
                     /\ result'.narrative = Append(steps, StepFragment)
                ELSE /\ pc' = "init"
                     /\ steps' = Append(steps, StepFragment)
    ]_vars

\* a call completed by a scrollIntoView step whose scroll had failed
C24_Witness ==
  /\ event.name = "StepDone"
  /\ event.exec.swallowed
  /\ event.cmds[1].method = "scrollIntoView"
  /\ result.success

\* C25: in every cache check, for the live document and every stored step
\* (selector list, stored fingerprint), the validator returns the selector latest in the stored order
\* among those that are attached, serialize without error, and whose normalized
\* live fingerprint equals the normalized stored one, both being non-empty; it
\* returns none when no selector passes.
C25_ValidatorReverseFirstMatch ==
  pc = "cache" =>
  \A xs \in {<<>>} \cup [1..1 -> Selectors] \cup [1..2 -> Selectors] :
    \A m \in {mSubmit, mRestyled, mSend} :
      \A saved \in {<<>>, GetComponentString(m),
                     <<" ">> \o GetComponentString(m) \o <<" ", " ">>} :
        LET rec == [NoRecord EXCEPT !.xpaths = xs, !.componentString = saved]
            Passes(x) ==
              /\ page[x].attached
              /\ ~page[x].stale
              /\ saved # <<>>
              /\ GetComponentString(page[x]) # <<>>
              /\ Normalize(GetComponentString(page[x])) = Normalize(saved)
            passing == {i \in 1..Len(xs) : Passes(xs[i])}
            answer == GetValidCachedStepXpath(page, rec)
        IN IF passing = {} THEN answer = "none"
           ELSE answer = xs[CHOOSE i \in passing : \A k \in passing : k <= i]

\* a replay on the selector stored last while the one stored first passes too
C25_Witness ==
  /\ event.name \in {"CacheReplayDone", "CacheReplayContinue"}
  /\ replayed.xpaths = <<"x1", "x2">>
  /\ CheckIfCachedStepIsValid_oneXpath(page, "x1", replayed.componentString)
  /\ event.cmds[1].xpath = "x2"

\* C26: in fresh inference the resolver waits for the candidates of the
\* decision in list order and takes the first that is attached, waiting for no
\* later one. When none is attached, or the element has no candidate, the step
\* fails before any command: nothing is issued to the page, no cache write is
\* issued, the recorder gets nothing, and the failure is retried while the
\* retry counter is below RetryCap and ends the call otherwise.
C26_ResolverFirstAttached ==
  [][ LET att == {i \in 1..Len(xpaths) : page[xpaths[i]].attached}
          first == CHOOSE i \in att : \A k \in att : i <= k
      IN /\ (FingerprintRaises \/ CommandFails \/ StepContinue \/ StepDone) =>
              /\ att # {}
              /\ foundXpath = xpaths[first]
              /\ event'.probed = SubSeq(xpaths, 1, first)
              /\ \A i \in 1..Len(event'.cmds) : event'.cmds[i].xpath = xpaths[first]
         /\ ResolveFails =>
              /\ att = {}
              /\ event'.probed = xpaths
              /\ event'.cmds = <<>>
              /\ event'.exec = NoExec
              /\ {op \in pending' : op.op = "put"} = {op \in pending : op.op = "put"}
              /\ actionCache' = actionCache
              /\ recorder' = recorder
              /\ IF retries < RetryCap
                   THEN pc' = "init" /\ retries' = retries + 1
                   ELSE pc' = "done" /\ ~result'.success
    ]_vars

\* a retried step none of whose two candidates was attached
C26_Witness ==
  /\ event.name = "ResolveFails"
  /\ event.probed = <<"x1", "x2">>
  /\ pc = "init"
  /\ retries = 1

\* C27: the cache check runs only with caching enabled and the bypass flag
\* clear; with caching disabled no step of act looks up, writes, removes or
\* purges anything in the cache store, on the failure paths included: no store
\* operation is ever in flight and the store stays as it was.
C27_NoCacheUseWhenDisabled ==
  /\ pc = "cache" => enableCaching /\ ~skipActionCacheForThisStep
  /\ ~enableCaching =>
       /\ pc # "cache"
       /\ pending = {}
       /\ purgesIssued = {}
       /\ actionCache = {}
       /\ event.name \notin {"CacheLookupRaises", "CacheMiss", "CacheInvalid",
                              "CacheReplayRaises", "CacheReplayDone",
                              "CacheReplayContinue", "CacheWriteLands",
                              "CacheWriteFails", "CachePurgeLands"}

\* with caching disabled, a call that executed a step and then failed for good
C27_Witness ==
  /\ ~enableCaching
  /\ pc = "done"
  /\ ~result.success
  /\ executed >= 1
  /\ event.name = "CommandFails"
  /\ pending = {}

\* C28: with a model that has no vision capability, in the whole call chain
\* the decision oracle is never given a screenshot, the verification oracle is
\* never given a screenshot, for a fresh step and for a step replayed from the
\* cache alike, and the vision fallback is never taken.
C28_NoVisionNoScreenshot ==
  ~hasVision =>
    /\ ~event.shot
    /\ event.verifier # "screenshot"
    /\ visionFallbacks = 0
    /\ event.name # "NullFallback"

\* C29: every step record that act hands to the cache has a selector list that
\* is not empty and contains the selector resolved for the step (the one the
\* command was issued on), and a fingerprint that is in normalized form and is
\* the fingerprint the resolved element had before the command ran.
C29_WrittenRecordWellFormed ==
  [][(StepContinue \/ StepDone) =>
       /\ enableCaching => pending' # pending
       /\ \A op \in pending' \ pending :
            LET x == event'.cmds[1].xpath
            IN /\ op.op = "put"
               /\ op.rec.xpaths # <<>>
               /\ x \in Range(op.rec.xpaths)
               /\ page[x].attached
               /\ op.rec.componentString # <<>>
               /\ Normalize(op.rec.componentString) = op.rec.componentString
               /\ op.rec.componentString =
                    Normalize(<<"<", page[x].type, ">", "<i class=",
                                page[x].inner, ">">> \o page[x].text
                              \o <<"</i>", "</>">>)
    ]_vars

\* a record in flight whose fingerprint is the one the element had before the
\* click that changed it
C29_Witness ==
  /\ event.name = "StepContinue"
  /\ event.cmds[1].method = "click"
  /\ \E op \in pending :
       /\ op.op = "put"
       /\ op.rec.componentString # GetComponentString(page[event.cmds[1].xpath])
       /\ op.rec.componentString = GetComponentString(mSubmit)

\* C30: the verification oracle is invoked only for a step that claims
\* completion. A fresh step whose decision has completed = false and a replayed
\* step whose record has completed = false do not invoke it and do not end the
\* call: the call goes on with the next frame.
C30_VerifyOnlyWhenCompleted ==
  [][ /\ (StepContinue \/ StepDone) =>
           /\ event'.verifier # "none" <=> response.completed
           /\ ~response.completed =>
                /\ pc' = "init"
                /\ result' = result
                /\ result'.status = "none"
      /\ (CacheReplayDone \/ CacheReplayContinue) =>
           /\ event'.verifier # "none" <=> cachedStep.completed
           /\ ~cachedStep.completed =>
                /\ pc' = "init"
                /\ result' = result
                /\ result'.status = "none"
      /\ (\E site \in {"cachedCommand", "cachedDom", "cachedVerify"} :
            CacheReplayRaises(site)) =>
           /\ event'.verifier # "none" => cachedStep.completed
           /\ result'.status = "none"
    ]_vars

\* the replay of a step recorded as not complete goes on without verification
C30_Witness ==
  /\ event.name = "CacheReplayContinue"
  /\ ~replayed.completed
  /\ event.verifier = "none"
  /\ pc = "init"

\* C31: a step whose command completed appends exactly one entry to the
\* recorder when recording is enabled (and the recorder accepts the append),
\* and the entry describes that command: its method, a selector list holding
\* the selector it was issued on, and the session of the call. This holds for
\* fresh and for replayed commands. A step whose command failed, a step that
\* issued no command, and every step taken with recording disabled leave the
\* recorder as it was.
C31_RecordedAfterSuccess ==
  [][LET ran == /\ event'.cmds # <<>>
                /\ event'.cmds[1].ok
                /\ event'.exec.raised = "none"
     IN IF ran /\ enableRecording /\ ~recorderFails
          THEN /\ Len(recorder') = Len(recorder) + 1
               /\ SubSeq(recorder', 1, Len(recorder)) = recorder
               /\ LET e == recorder'[Len(recorder')]
                      c == event'.cmds[1]
                  IN /\ e.method = c.method
                     /\ c.xpath \in Range(e.xpaths)
                     /\ e.requestId = requestId
                     /\ executed' = executed + 1
          ELSE recorder' = recorder
    ]_vars

\* a replayed command and, before it, a fresh command have each left an entry
C31_Witness ==
  /\ enableRecording
  /\ event.name = "CacheReplayContinue"
  /\ Len(recorder) >= 2
  /\ recorder[Len(recorder)].requestId = "r2"
  /\ recorder[1].requestId = "r1"

C33_OracleKnowsExecuted ==
  event.oracle =>
    Cardinality({i \in 1..Len(steps) : steps[i] = StepFragment}) = executed

\* C34: a fresh step issues its command with the values of the request's
\* variable map in place of the placeholders, and the record it hands to the
\* cache holds the oracle's arguments as the oracle gave them, placeholders
\* unresolved: no value of any variable map occurs in a record in flight or in
\* the store, so what is written does not depend on the values.
C34_RecordKeepsPlaceholders ==
  [][/\ (StepContinue \/ StepDone) =>
          /\ Len(event'.cmds[1].args) = Len(response.cmd.args)
          /\ \A i \in 1..Len(response.cmd.args) :
               event'.cmds[1].args[i] =
                 IF response.cmd.args[i] = "<|v|>" THEN variables.v
                                                   ELSE response.cmd.args[i]
          /\ \A op \in pending' \ pending :
               op.rec.playwrightCommand.args = response.cmd.args
     /\ \A vm \in VarMaps :
          /\ \A op \in pending' :
               vm.v \notin Range(op.rec.playwrightCommand.args)
          /\ \A r \in actionCache' :
               vm.v \notin Range(r.playwrightCommand.args)
    ]_vars

\* a fill issued with the value B whose record, in flight, holds the placeholder
C34_Witness ==
  /\ event.name \in {"StepContinue", "StepDone"}
  /\ variables.v = "B"
  /\ event.cmds[1].args = <<"B">>
  /\ \E op \in pending :
       /\ op.op = "put"
       /\ op.rec.playwrightCommand = [method |-> "fill", args |-> <<"<|v|>">>]

\* C35: a call that returns success has issued no purge of its session. While
\* a call runs, the store loses an entry only by the removal, by key, of the
\* cached step of the current frame, when that step failed validation or its
\* replay raised. After a successful call the entries of its session stay in
\* the store, and each of its writes that completes adds its record.
C35_SuccessKeepsEntries ==
  [][/\ (pc' = "done" /\ result'.success) =>
          /\ requestId' \notin purgesIssued'
          /\ \A op \in pending' : op.op = "purge" => op.requestId # requestId'
     /\ (pc \in {"init", "cache", "fresh", "execute"}
            /\ actionCache' # actionCache) =>
          /\ event'.name \in {"CacheInvalid", "CacheReplayRaises"}
          /\ cachedStep \in actionCache
          /\ actionCache' = actionCache \ {cachedStep}
     /\ (pc = "returned" /\ result.success) =>
          /\ \A r \in actionCache : r.requestId = requestId => r \in actionCache'
          /\ \A op \in pending \ pending' :
               (CacheWriteLands(op) /\ op.requestId = requestId)
                 => op.rec \in actionCache'
    ]_vars

\* a successful call that removed an invalid cached step on its way and whose
\* own record is in flight
C35_Witness ==
  /\ pc = "done"
  /\ result.success
  /\ requestId = "r2"
  /\ sinceInvalid >= 0
  /\ \E op \in pending : op.op = "put" /\ op.requestId = "r2"
  /\ \E r \in actionCache : r.requestId = "r1"

====
